---- MODULE Spec2Model ----
(***************************************************************************)
(* The NodeRefresh operator (controller.py): the timer handler             *)
(* check_node_refreshes, the field handler process_node_refresh, the drain *)
(* engine drain_node and the status writer update_status, for ONE          *)
(* NodeRefresh object, against a small cluster of nodes and pods.          *)
(*                                                                         *)
(* Time is counted in whole units of one day; nodeCooldownSeconds is given *)
(* in the same unit (a multiple of 86400 s).  The clock may move between   *)
(* any two steps of a handler and between any two clock readings of one    *)
(* step.  A handler runs with a fresh patch; kopf merges the patch into    *)
(* the persisted status when the handler ends, whether it returned or      *)
(* raised.  The pods of a node stay on it until they are evicted.          *)
(***************************************************************************)
EXTENDS Integers, Sequences, FiniteSets, TLC

\* ------------------------------------------------------------ bounds
MaxTime == 1
MaxEnvChanges == 1
MaxPasses == 1
MaxDrainPasses == 11

\* ------------------------------------------------- program constants
max_drain_attempts == 10
KeepConditions == 9

\* ------------------------------------------------------------ inputs
Nodes == {"n1", "n2", "n3"}
InitialClusters == {{}, {"n1"}, {"n1", "n2"}}
CooldownChoices == {0, 1}
RefreshChoices == {1}

\* The pods a node may hold: two ordinary pods, a DaemonSet-owned pod, the
\* operator's own pod, and a pod in the operator's namespace that carries no
\* labels at all (metadata.labels is None in the client).
OPERATOR_NAMESPACE == "default"
PodInfo ==
  [ web1 |-> [namespace |-> "apps",        app |-> "web",                   daemon |-> FALSE],
    web2 |-> [namespace |-> "apps",        app |-> "web",                   daemon |-> FALSE],
    ds   |-> [namespace |-> "kube-system", app |-> "agent",                 daemon |-> TRUE],
    op   |-> [namespace |-> "default",     app |-> "node-refresh-operator", daemon |-> FALSE],
    bare |-> [namespace |-> "default",     app |-> "NoLabels",              daemon |-> FALSE] ]
PodUniverse == DOMAIN PodInfo
\* what a node may hold at the start
PodSets == {{}, {"ds", "op"}, {"web1", "ds"}, {"web1", "web2", "op"}, {"bare", "web1"}}

Phases == {"Idle", "FindingNodes", "ProcessingNode", "WaitingCooldown", "Succeeded", "Failed"}

\* Python's None for a string argument, for a timestamp and for a condition.
None == "None"
NoTime == -1
NoCond == [type |-> "", status |-> "", lastTransitionTime |-> NoTime, reason |-> "", message |-> ""]

VARIABLES
  status,      \* the persisted status of the NodeRefresh object
  spec,        \* its spec: nodeCooldownSeconds, refreshScheduleDays
  patch,       \* the patch of the handler that is running
  pc,          \* position of the running reconcile: idle, list, cordon, drain, evict,
               \* final, uncordon, finish
  attempt,     \* drain_node's attempt counter
  passes,      \* passes of the eviction loop in this drain
  inpass,      \* the pass in progress: pods still to evict, and the two counts
  present,     \* nodes that exist
  labelled,    \* nodes that carry all targetNodeLabels
  ready,       \* nodes whose Ready condition is True
  unsched,     \* nodes with spec.unschedulable = True
  opCordoned,  \* nodes cordoned by the operator and not uncordoned since
  pods,        \* the active pods of every node
  now,         \* the clock
  envLeft,     \* changes the cluster may still make
  run          \* what the current or last handler run did

vars == <<status, spec, patch, pc, attempt, passes, inpass, present, labelled, ready,
          unsched, opCordoned, pods, now, envLeft, run>>

cluster == <<present, labelled, ready, unsched, opCordoned>>

\* ------------------------------------------------------ status writer
EmptyPatch == [phase |-> "", currentNode |-> None, lastRefreshTimestamp |-> NoTime, conditions |-> <<>>]

\* s[-n:]
LastN(s, n) == IF Len(s) <= n THEN s ELSE SubSeq(s, Len(s) - n + 1, Len(s))

\* the implicit condition of a call that carries a message
new_condition(status_obj, phase, message, t) ==
  [ type               |-> IF phase # "" THEN phase
                           ELSE IF status_obj.phase # "" THEN status_obj.phase ELSE "Unknown",
    status             |-> "True",
    lastTransitionTime |-> t,
    reason             |-> IF phase # "" THEN phase ELSE "Processing",
    message            |-> message ]

\* faulty variant: conditions[:9] in place of conditions[-9:] (the oldest are kept)
AppendImplicitOldest(conds, cond) ==
  (IF Len(conds) <= KeepConditions THEN conds ELSE SubSeq(conds, 1, KeepConditions))
    \o <<cond>>

\* patch['status']['conditions'] = conditions[-9:] + [new_condition]
AppendImplicit(conds, cond) == LastN(conds, KeepConditions) \o <<cond>>

\* the add_condition branch: replace the first entry of the same type, else append
AppendExplicit(conds, cond) ==
  IF \E i \in 1..Len(conds) : conds[i].type = cond.type
  THEN LET i == CHOOSE k \in 1..Len(conds) :
                  /\ conds[k].type = cond.type
                  /\ \A j \in 1..(k - 1) : conds[j].type # cond.type
       IN  [conds EXCEPT ![i] = cond]
  ELSE Append(conds, cond)

\* faulty variant: the implicit condition takes its type from the phase already
\* in the patch
update_status_patch_phase(p, status_obj, phase, current_node, message, timestamp, add_condition, t) ==
  LET p1 == IF phase # "" THEN [p EXCEPT !.phase = phase] ELSE p
      p2 == IF current_node # None THEN [p1 EXCEPT !.currentNode = current_node] ELSE p1
      p3 == IF message # ""
            THEN [p2 EXCEPT !.conditions =
                     AppendImplicit(@, new_condition(status_obj, p1.phase, message, t))]
            ELSE p2
      p4 == IF timestamp # NoTime THEN [p3 EXCEPT !.lastRefreshTimestamp = timestamp] ELSE p3
      p5 == IF add_condition # NoCond
            THEN [p4 EXCEPT !.conditions = AppendExplicit(@, add_condition)]
            ELSE p4
  IN  p5

update_status(p, status_obj, phase, current_node, message, timestamp, add_condition, t) ==
  LET p1 == IF phase # "" THEN [p EXCEPT !.phase = phase] ELSE p
      p2 == IF current_node # None THEN [p1 EXCEPT !.currentNode = current_node] ELSE p1
      p3 == IF message # ""
            THEN [p2 EXCEPT !.conditions =
                     AppendImplicit(@, new_condition(status_obj, phase, message, t))]
            ELSE p2
      p4 == IF timestamp # NoTime THEN [p3 EXCEPT !.lastRefreshTimestamp = timestamp] ELSE p3
      p5 == IF add_condition # NoCond
            THEN [p4 EXCEPT !.conditions = AppendExplicit(@, add_condition)]
            ELSE p4
  IN  p5

\* faulty variant: the merge leaves currentNode out
ApplyPatchWithoutNode(st, p) ==
  [ phase                |-> IF p.phase # "" THEN p.phase ELSE st.phase,
    currentNode          |-> st.currentNode,
    lastRefreshTimestamp |-> IF p.lastRefreshTimestamp # NoTime
                             THEN p.lastRefreshTimestamp ELSE st.lastRefreshTimestamp,
    conditions           |-> IF p.conditions # <<>> THEN p.conditions ELSE st.conditions ]

\* kopf's merge-patch of the handler's patch into the status subresource
ApplyPatch(st, p) ==
  [ phase                |-> IF p.phase # "" THEN p.phase ELSE st.phase,
    currentNode          |-> IF p.currentNode # None THEN p.currentNode ELSE st.currentNode,
    lastRefreshTimestamp |-> IF p.lastRefreshTimestamp # NoTime
                             THEN p.lastRefreshTimestamp ELSE st.lastRefreshTimestamp,
    conditions           |-> IF p.conditions # <<>> THEN p.conditions ELSE st.conditions ]

\* --------------------------------------------------------- node query
is_node_ready(n) == n \in ready
is_node_schedulable(n) == n \notin unsched

\* faulty variant: the label selector is not passed to list_node
get_nodes_by_selector_unfiltered(listOK) == IF listOK THEN present ELSE {}

\* list_node(label_selector): the matching nodes, or [] when the call failed
get_nodes_by_selector(listOK) == IF listOK THEN present \cap labelled ELSE {}

\* faulty variant: the label check always passes
MatchesLabelsAlways(labels) == TRUE

\* node.metadata.labels as read_node returns it: a dict that holds every
\* target label, a dict that does not, or None for a node without any label
NodeLabels(n) == IF n \in labelled THEN {"matching"} ELSE {"other", None}

\* None has no .items(): the label check raises AttributeError
LabelsRaise(labels) == labels = None

\* all(item in node.metadata.labels.items() for item in target_labels.items())
MatchesLabels(labels) == labels = "matching"

\* ------------------------------------------------------- drain engine
\* get_pods_on_node: the active pods, or [] when the call failed
get_pods_on_node(node_name, listOK) ==
  IF listOK /\ node_name \in DOMAIN pods THEN pods[node_name] ELSE {}

\* evaluating the filter on a pod of the operator's namespace without labels
\* raises AttributeError (None has no .get)
FilterRaises(ps) ==
  \E p \in ps : PodInfo[p].namespace = OPERATOR_NAMESPACE /\ PodInfo[p].app = "NoLabels"

IsOperatorPod(p) ==
  PodInfo[p].namespace = OPERATOR_NAMESPACE /\ PodInfo[p].app = "node-refresh-operator"

IsDaemonPod(p) == PodInfo[p].daemon

\* faulty variant: the DaemonSet test is left out of the filter
pods_to_evict_daemons(ps) == {p \in ps : ~IsOperatorPod(p)}

pods_to_evict(ps) == {p \in ps : ~IsOperatorPod(p) /\ ~IsDaemonPod(p)}

\* evict_pod returns True for an accepted eviction and for 404, False for 429
\* and for every other error
EvictionOutcomes == {"Evicted", "Gone", "Blocked", "Error"}
evict_pod(outcome) == outcome \in {"Evicted", "Gone"}

\* ------------------------------------------------------------- timer
\* lastTransitionTime of the most recent WaitingCooldown condition, or NoTime
CooldownStart(conds) ==
  LET idx == {i \in 1..Len(conds) :
                conds[i].type = "WaitingCooldown" /\ conds[i].status = "True"}
  IN  IF idx = {} THEN NoTime
      ELSE conds[CHOOSE i \in idx : \A j \in idx : j <= i].lastTransitionTime

\* faulty variant: the cooldown is taken to end one unit early
InCooldownEarly(start, cooldown_seconds, t) == t + 1 < start + cooldown_seconds

\* faulty variant: the cooldown is taken to last one unit longer
InCooldownLate(start, cooldown_seconds, t) == t <= start + cooldown_seconds

\* now < cooldown_start_time + timedelta(seconds=cooldown_seconds)
InCooldown(start, cooldown_seconds, t) == t < start + cooldown_seconds

\* status.lastRefreshTimestamp is a string.  The operator writes isoformat()
\* of a UTC time t, which is t >= 0 here, and NoTime is the absent field.
\* Another writer of the status may leave a string isoparse rejects
\* (Malformed) or an ISO timestamp of time t without a UTC offset
\* (NaiveStamp(t)).
Malformed == -2
NaiveStamp(t) == (-3) - t

\* isoparse(last_refresh_str): ValueError for a string that is no ISO
\* timestamp, else the time it names, with or without a timezone
isoparse(s) ==
  IF s = Malformed THEN [error |-> "ValueError", tz |-> "", t |-> NoTime]
  ELSE IF s <= -3 THEN [error |-> "", tz |-> "none", t |-> (-3) - s]
  ELSE [error |-> "", tz |-> "utc", t |-> s]

\* datetime.now(timezone.utc) >= next_refresh_time raises TypeError when
\* next_refresh_time carries no timezone; only ValueError is caught
RefreshRaises(last_refresh) ==
  /\ last_refresh # NoTime
  /\ isoparse(last_refresh).error = ""
  /\ isoparse(last_refresh).tz = "none"

\* faulty variant: the refresh is due only after the scheduled instant
RefreshNeededLate(last_refresh, refresh_days, t) ==
  \/ last_refresh = NoTime
  \/ isoparse(last_refresh).error = "ValueError"
  \/ /\ isoparse(last_refresh).tz = "utc"
     /\ t > isoparse(last_refresh).t + refresh_days

\* refresh_needed: not last_refresh_str, or isoparse raised ValueError, or
\* now >= last_refresh_time + relativedelta(days=refresh_days)
RefreshNeeded(last_refresh, refresh_days, t) ==
  \/ last_refresh = NoTime
  \/ isoparse(last_refresh).error = "ValueError"
  \/ /\ isoparse(last_refresh).tz = "utc"
     /\ t >= isoparse(last_refresh).t + refresh_days

\* faulty variant: the timer also acts while a node is being processed
TimerPhasesWithProcessing == {"Idle", "Succeeded", "Failed", "WaitingCooldown", "ProcessingNode"}

\* the phases in which the timer does not yield
TimerPhases == {"Idle", "Succeeded", "Failed", "WaitingCooldown"}

\* the timer returns without a patch: a phase it does not act in, or a
\* cooldown that has not elapsed at the reading of the cooldown test
TimerYields(st, sp, t) ==
  LET current_phase == IF st.phase = "" THEN "Idle" ELSE st.phase
      start == CooldownStart(st.conditions)
  IN  \/ current_phase \notin TimerPhases
      \/ /\ current_phase = "WaitingCooldown"
         /\ start # NoTime
         /\ InCooldown(start, sp.nodeCooldownSeconds, t)

\* the timer run ends in the TypeError of the schedule test
TimerRaises(st, sp, t) ==
  ~TimerYields(st, sp, t) /\ RefreshRaises(st.lastRefreshTimestamp)

\* The clock readings of one timer run that starts at t, in the order the
\* code makes them: the cooldown test, the status write that ends the
\* cooldown, the schedule test (made once the timestamp has parsed), the
\* status write that triggers the cycle.  The first reading made is t, no
\* reading is earlier than the one before, and a reading the run does not
\* make repeats the one before it.
TimerReadings(st, sp, t) ==
  LET cooling == st.phase = "WaitingCooldown"
      stamped == /\ st.lastRefreshTimestamp # NoTime
                 /\ isoparse(st.lastRefreshTimestamp).error = ""
  IN  { ts \in [1..4 -> t..MaxTime] :
          /\ ts[1] = t
          /\ \A i \in 1..3 : ts[i] <= ts[i + 1]
          /\ LET yields == TimerYields(st, sp, ts[1])
                 made2 == ~yields /\ cooling
                 made3 == ~yields /\ stamped
                 made4 == /\ ~yields
                          /\ RefreshNeeded(st.lastRefreshTimestamp, sp.refreshScheduleDays, ts[3])
             IN  /\ (~made2 \/ CooldownStart(st.conditions) = NoTime) => ts[2] = ts[1]
                 /\ (~made3 \/ ~cooling) => ts[3] = ts[2]
                 /\ (~made4 \/ (~cooling /\ ~stamped)) => ts[4] = ts[3] }

\* the patch one timer run builds from the persisted status and its clock
\* readings; a run that raises leaves the patch as it was at the schedule test
check_node_refreshes(st, sp, ts) ==
  LET current_phase == IF st.phase = "" THEN "Idle" ELSE st.phase
      start == CooldownStart(st.conditions)
      p1 == IF current_phase = "WaitingCooldown"
            THEN IF start # NoTime
                 THEN update_status(EmptyPatch, st, "Idle", None,
                                    "Cooldown finished.", NoTime, NoCond, ts[2])
                 ELSE update_status(EmptyPatch, st, "Idle", None,
                                    "Resetting from cooldown due to missing timestamp.",
                                    NoTime, NoCond, ts[2])
            ELSE EmptyPatch
      p2 == IF RefreshNeeded(st.lastRefreshTimestamp, sp.refreshScheduleDays, ts[3])
            THEN update_status(p1, st, "FindingNodes", "",
                               "Refresh cycle triggered by schedule.", NoTime, NoCond, ts[4])
            ELSE p1
  IN  IF TimerYields(st, sp, ts[1]) THEN EmptyPatch ELSE p2

\* --------------------------------------------------------- run record
NewRun(kind) ==
  [ kind       |-> kind,            \* tick or reconcile
    start      |-> status.phase,    \* the phase the handler started in
    outcome    |-> "running",       \* Done, Transient, Failed, Error, Killed
    cause      |-> "",              \* what made it Transient, Failed or Error
    cordon     |-> "",              \* the node this run cordoned
    candidates |-> {},              \* replacement candidates this run listed
    evictions  |-> {},              \* pods this run asked to evict
    fatal      |-> FALSE,           \* an eviction failed with an error other than 429 or 404
    uncordon   |-> "",              \* ok or failed
    clock      |-> <<>> ]           \* the clock readings of a timer run

\* no pass of the eviction loop is in progress
NoPass == [todo |-> {}, evicted_in_pass |-> 0, failed_in_pass |-> 0]

\* the handler ends: kopf applies its patch
Finish(r, p, outcome, cause) ==
  /\ status' = ApplyPatch(status, p)
  /\ patch' = EmptyPatch
  /\ pc' = "idle"
  /\ attempt' = 0
  /\ passes' = 0
  /\ inpass' = NoPass
  /\ run' = [r EXCEPT !.outcome = outcome, !.cause = cause,
                       !.candidates = {}, !.evictions = {}, !.fatal = FALSE]

\* faulty variant: the retry path resets the phase to Idle
OnTemporaryToIdle(p, st, t) ==
  update_status(p, st, "Idle", None, "Temporary issue", NoTime, NoCond, t)

\* except kopf.TemporaryError: update_status(message=...); raise
OnTemporary(p, st, t) ==
  update_status(p, st, "", None, "Temporary issue", NoTime, NoCond, t)

\* faulty variant: the failure path stamps lastRefreshTimestamp
OnPermanentStamped(p, st, t) ==
  update_status(p, st, "Failed", None, "Permanent error", t, NoCond, t)

\* except kopf.PermanentError: update_status(phase='Failed', ...)
OnPermanent(p, st, t) ==
  update_status(p, st, "Failed", None, "Permanent error", NoTime, NoCond, t)

\* except Exception: update_status(phase='Failed', ...)
OnUnexpected(p, st, t) ==
  update_status(p, st, "Failed", None, "Unexpected error", NoTime, NoCond, t)

\* ------------------------------------------------------------ actions
\* one run of the timer handler
Tick ==
  /\ pc = "idle"
  /\ \E ts \in TimerReadings(status, spec, now) :
       /\ IF TimerRaises(status, spec, ts[1])
          THEN Finish([NewRun("tick") EXCEPT !.clock = ts],
                      check_node_refreshes(status, spec, ts), "Error", "TypeError")
          ELSE Finish([NewRun("tick") EXCEPT !.clock = ts],
                      check_node_refreshes(status, spec, ts), "Done", "")
       /\ now' = ts[4]
  /\ UNCHANGED <<spec, cluster, pods, envLeft>>

\* process_node_refresh, branch current_phase == 'FindingNodes'
ReconcileFinding ==
  /\ pc = "idle"
  /\ status.phase = "FindingNodes"
  /\ \E listOK \in BOOLEAN :
       LET nodes == get_nodes_by_selector(listOK)
           schedulable_nodes == {n \in nodes : is_node_schedulable(n) /\ is_node_ready(n)}
           r == NewRun("reconcile")
       IN  IF nodes = {}
           THEN /\ Finish(r, update_status(EmptyPatch, status, "Idle", None,
                                           "No target nodes found.", NoTime, NoCond, now),
                          "Done", IF listOK THEN "NoNodes" ELSE "ListFailed")
                /\ now' = now
           ELSE IF schedulable_nodes = {}
           THEN \E t2 \in now..MaxTime :
                  /\ Finish(r, OnTemporary(
                                 update_status(EmptyPatch, status, "", None,
                                               "Waiting for a schedulable/ready target node.",
                                               NoTime, NoCond, now),
                                 status, t2),
                            "Transient", "NoSelectable")
                  /\ now' = t2
           ELSE \E node_name \in schedulable_nodes :
                  /\ Finish(r, update_status(EmptyPatch, status, "ProcessingNode", node_name,
                                             "Selected node for refresh.", NoTime, NoCond, now),
                            "Done", "Selected")
                  /\ now' = now
  /\ UNCHANGED <<spec, cluster, pods, envLeft>>

\* core_v1_api.read_node(node_name): the node, 404, another ApiException, or
\* an exception that is no ApiException (the connection failed)
ReadOutcomes(n) == IF n \in present THEN {"ok", "apierr", "exc"} ELSE {"404", "apierr", "exc"}

\* faulty variant: the node under refresh counts as its own replacement
replacement_candidates_with_self(nodes, node_name) ==
  {n \in nodes : is_node_ready(n) /\ is_node_schedulable(n)}

\* replacement_candidates of process_node_refresh
replacement_candidates(nodes, node_name) ==
  {n \in nodes : n # node_name /\ is_node_ready(n) /\ is_node_schedulable(n)}

\* process_node_refresh, branch current_phase == 'ProcessingNode': read_node
\* and the label check
ReconcileProcessing ==
  /\ pc = "idle"
  /\ status.phase = "ProcessingNode"
  /\ LET node_name == status.currentNode
         r == NewRun("reconcile")
     IN  IF node_name = ""
         THEN \E t2 \in now..MaxTime :
                /\ Finish(r, OnTemporary(
                               update_status(EmptyPatch, status, "FindingNodes", None,
                                             "Error: Missing currentNode.", NoTime, NoCond, now),
                               status, t2),
                          "Transient", "MissingCurrentNode")
                /\ now' = t2
         ELSE /\ now' = now
              /\ \E rd \in ReadOutcomes(node_name), labels \in NodeLabels(node_name) :
                  IF rd = "404"
                  THEN Finish(r, update_status(EmptyPatch, status, "FindingNodes", "",
                                               "Node not found.", NoTime, NoCond, now),
                              "Done", "NotFound")
                  ELSE IF rd = "apierr"
                  THEN Finish(r, OnTemporary(EmptyPatch, status, now), "Transient", "ApiError")
                  ELSE IF rd = "exc"
                  THEN Finish(r, OnUnexpected(EmptyPatch, status, now), "Error", "ReadNode")
                  ELSE IF LabelsRaise(labels)
                  THEN Finish(r, OnUnexpected(EmptyPatch, status, now), "Error", "NoLabels")
                  ELSE IF ~MatchesLabels(labels)
                  THEN Finish(r, update_status(EmptyPatch, status, "FindingNodes", "",
                                               "Node labels changed.", NoTime, NoCond, now),
                              "Done", "LabelsChanged")
                  ELSE /\ pc' = "list"
                       /\ run' = r
                       /\ UNCHANGED <<status, patch, attempt, passes, inpass>>
  /\ UNCHANGED <<spec, cluster, pods, envLeft>>

\* process_node_refresh: list_node and the replacement check
ListReplacements ==
  /\ pc = "list"
  /\ \E listOK \in BOOLEAN :
       LET node_name == status.currentNode
           nodes == get_nodes_by_selector(listOK)
           cands == replacement_candidates(nodes, node_name)
           rc == [run EXCEPT !.candidates = cands]
       IN  IF cands = {}
           THEN \E t2 \in now..MaxTime :
                  /\ Finish(rc, OnTemporary(
                                  update_status(patch, status, "", None,
                                                "Waiting for replacement.", NoTime, NoCond, now),
                                  status, t2),
                            "Transient", IF listOK THEN "NoReplacement" ELSE "ListFailed")
                  /\ now' = t2
           ELSE /\ pc' = "cordon"
                /\ run' = rc
                /\ UNCHANGED <<status, patch, attempt, passes, inpass, now>>
  /\ UNCHANGED <<spec, cluster, pods, envLeft>>

\* drain_node up to the loop: cordon_node and the status write that follows
Cordon ==
  /\ pc = "cordon"
  /\ LET node_name == status.currentNode IN
     \E cordonOK \in (IF node_name \in present THEN BOOLEAN ELSE {FALSE}) :
       IF ~cordonOK
       THEN /\ Finish(run, OnTemporary(patch, status, now), "Transient", "CordonFailed")
            /\ UNCHANGED cluster
       ELSE /\ unsched' = unsched \cup {node_name}
            /\ opCordoned' = opCordoned \cup {node_name}
            /\ patch' = update_status(patch, status, "ProcessingNode", node_name,
                                      "Node cordoned, starting drain.", NoTime, NoCond, now)
            /\ pc' = "drain"
            /\ attempt' = 0
            /\ passes' = 0
            /\ inpass' = NoPass
            /\ run' = [run EXCEPT !.cordon = node_name]
            /\ UNCHANGED <<status, present, labelled, ready>>
  /\ UNCHANGED <<spec, pods, now, envLeft>>

\* the head of one pass of drain_node's eviction loop: the pod listing, the
\* filter and the status write.  The loop runs as long as the code's does;
\* passes counts its passes up to cap + 1.
DrainPassUpTo(cap) ==
  /\ pc = "drain"
  /\ \E listOK \in BOOLEAN :
       LET listed == get_pods_on_node(status.currentNode, listOK)
           todo == pods_to_evict(listed)
       IN
       IF FilterRaises(listed)
       THEN Finish(run, OnUnexpected(patch, status, now), "Error", "PodFilter")
       ELSE IF todo = {}
       THEN \* break
            /\ pc' = "final"
            /\ UNCHANGED <<status, patch, attempt, passes, inpass, run>>
       ELSE /\ patch' = update_status(patch, status, "", None, "Draining node.",
                                      NoTime, NoCond, now)
            /\ inpass' = [todo |-> todo, evicted_in_pass |-> 0, failed_in_pass |-> 0]
            /\ passes' = IF passes <= cap THEN passes + 1 ELSE passes
            /\ pc' = "evict"
            /\ UNCHANGED <<status, attempt, run>>
  /\ UNCHANGED <<spec, cluster, pods, now, envLeft>>

DrainPass == DrainPassUpTo(MaxPasses)

DrainPassLong == DrainPassUpTo(MaxDrainPasses)

\* one evict_pod of the pass, and after the last one the count of the pass
\* and the loop condition.  An evicted pod leaves the node or stays listed.
\* The pods are what is bounded: while trouble holds an eviction may be
\* rejected, fail, or leave the pod listed; after that every eviction is
\* accepted and the pod goes.
EvictPodWhile(trouble) ==
  /\ pc = "evict"
  /\ \E p \in inpass.todo, out \in (IF trouble THEN EvictionOutcomes ELSE {"Evicted", "Gone"}) :
     \E linger \in (IF out = "Evicted" /\ trouble THEN BOOLEAN ELSE {FALSE}) :
       LET node_name == status.currentNode
           evicted_in_pass == inpass.evicted_in_pass + (IF evict_pod(out) THEN 1 ELSE 0)
           failed_in_pass == inpass.failed_in_pass + (IF evict_pod(out) THEN 0 ELSE 1)
           rest == inpass.todo \ {p}
           attempt2 == IF failed_in_pass > 0 THEN attempt + 1 ELSE attempt
       IN  /\ pods' = IF out = "Gone" \/ (out = "Evicted" /\ ~linger)
                      THEN [pods EXCEPT ![node_name] = @ \ {p}] ELSE pods
           /\ run' = [run EXCEPT !.evictions = @ \cup {p},
                                  !.fatal = @ \/ out = "Error"]
           /\ IF rest # {}
              THEN /\ inpass' = [todo |-> rest, evicted_in_pass |-> evicted_in_pass,
                                 failed_in_pass |-> failed_in_pass]
                   /\ pc' = "evict"
                   /\ attempt' = attempt
              ELSE /\ inpass' = NoPass
                   /\ attempt' = attempt2
                   /\ pc' = IF attempt2 < max_drain_attempts THEN "drain" ELSE "final"
  /\ UNCHANGED <<status, spec, patch, passes, cluster, now, envLeft>>

EvictPod == EvictPodWhile(passes <= MaxPasses)

EvictPodLong == EvictPodWhile(passes <= MaxDrainPasses)

EvictPodLive == EvictPodWhile(TRUE)

\* drain_node after the loop: the final listing and its verdict
DrainFinal ==
  /\ pc = "final"
  /\ \E listOK \in BOOLEAN :
       LET listed == get_pods_on_node(status.currentNode, listOK)
           final_pods == pods_to_evict(listed)
       IN
       IF FilterRaises(listed)
       THEN /\ Finish(run, OnUnexpected(patch, status, now), "Error", "PodFilter")
            /\ now' = now
       ELSE IF final_pods # {}
       THEN \E t2 \in now..MaxTime :
              /\ Finish(run,
                        OnPermanent(update_status(patch, status, "Failed", None,
                                                  "Failed to drain node.", NoTime, NoCond, now),
                                    status, t2),
                        "Failed", "PodsRemain")
              /\ now' = t2
       ELSE /\ patch' = update_status(patch, status, "", None,
                                      "Successfully drained node.", NoTime, NoCond, now)
            /\ pc' = "uncordon"
            /\ UNCHANGED <<status, attempt, passes, inpass, run, now>>
  /\ UNCHANGED <<spec, cluster, pods, envLeft>>

WarningCondition(t) ==
  [ type |-> "Warning", status |-> "True", lastTransitionTime |-> t,
    reason |-> "UncordonFailed", message |-> "Failed to uncordon node after drain." ]

\* process_node_refresh after a successful drain: uncordon_node(node_name)
Uncordon ==
  /\ pc = "uncordon"
  /\ LET node_name == status.currentNode IN
     \E ok \in (IF node_name \in present THEN BOOLEAN ELSE {FALSE}) :
       IF ok
       THEN /\ unsched' = unsched \ {node_name}
            /\ opCordoned' = opCordoned \ {node_name}
            /\ run' = [run EXCEPT !.uncordon = "ok"]
            /\ UNCHANGED patch
       ELSE /\ patch' = update_status(patch, status, "", None, "", NoTime,
                                      WarningCondition(now), now)
            /\ run' = [run EXCEPT !.uncordon = "failed"]
            /\ UNCHANGED <<unsched, opCordoned>>
  /\ pc' = "finish"
  /\ UNCHANGED <<status, spec, attempt, passes, inpass, present, labelled, ready, pods, now, envLeft>>

\* process_node_refresh: the re-query and the closing status write
Complete ==
  /\ pc = "finish"
  /\ \E listOK \in BOOLEAN :
       LET node_name == status.currentNode
           nodes == get_nodes_by_selector(listOK)
           remaining_schedulable_nodes ==
             {n \in nodes : is_node_schedulable(n) /\ is_node_ready(n) /\ n # node_name}
       IN  \* the timestamp argument is read before update_status reads the clock
           \E t2 \in now..MaxTime :
             /\ Finish(run,
                       update_status(patch, status,
                                     IF Cardinality(remaining_schedulable_nodes) >= 1
                                     THEN "WaitingCooldown" ELSE "Succeeded",
                                     "", "Node refreshed.", now, NoCond, t2),
                       "Done", "Refreshed")
             /\ now' = t2
  /\ UNCHANGED <<spec, cluster, pods, envLeft>>

\* the operator process is restarted while a reconcile runs: the handler and
\* its patch are lost, the persisted status and the cluster stay
Restart ==
  /\ pc # "idle"
  /\ pc' = "idle"
  /\ patch' = EmptyPatch
  /\ attempt' = 0
  /\ passes' = 0
  /\ inpass' = NoPass
  /\ run' = [run EXCEPT !.outcome = "Killed"]
  /\ UNCHANGED <<status, spec, cluster, pods, now, envLeft>>

\* -------------------------------------------------------- environment
NodeDeleted ==
  /\ envLeft > 0
  /\ \E n \in present :
       /\ present' = present \ {n}
       /\ labelled' = labelled \ {n}
       /\ ready' = ready \ {n}
       /\ unsched' = unsched \ {n}
       /\ opCordoned' = opCordoned \ {n}
  /\ envLeft' = envLeft - 1
  /\ UNCHANGED <<status, spec, patch, pc, attempt, passes, inpass, pods, now, run>>

NodeRelabelled ==
  /\ envLeft > 0
  /\ \E n \in labelled : labelled' = labelled \ {n}
  /\ envLeft' = envLeft - 1
  /\ UNCHANGED <<status, spec, patch, pc, attempt, passes, inpass, present, ready, unsched,
                 opCordoned, pods, now, run>>

NodeReadyChanged ==
  /\ envLeft > 0
  /\ \E n \in present : ready' = IF n \in ready THEN ready \ {n} ELSE ready \cup {n}
  /\ envLeft' = envLeft - 1
  /\ UNCHANGED <<status, spec, patch, pc, attempt, passes, inpass, present, labelled, unsched,
                 opCordoned, pods, now, run>>

\* the clock moves, between handler runs or while a handler runs
Advance ==
  /\ now < MaxTime
  /\ now' = now + 1
  /\ UNCHANGED <<status, spec, patch, pc, attempt, passes, inpass, cluster, pods, envLeft, run>>

\* ------------------------------------------------------ specification
\* no handler has run yet
NoRun ==
  [ kind |-> "none", start |-> "", outcome |-> "", cause |-> "", cordon |-> "",
    candidates |-> {}, evictions |-> {}, fatal |-> FALSE, uncordon |-> "", clock |-> <<>> ]

\* the workload runs on n1; the other nodes are empty replacements
InitialPods(ns) ==
  {f \in [Nodes -> PodSets] : \A n \in Nodes \ (ns \cap {"n1"}) : f[n] = {}}

Init ==
  /\ status = [phase |-> "", currentNode |-> "", lastRefreshTimestamp |-> NoTime,
               conditions |-> <<>>]
  /\ spec \in [nodeCooldownSeconds : CooldownChoices, refreshScheduleDays : RefreshChoices]
  /\ patch = EmptyPatch
  /\ pc = "idle"
  /\ attempt = 0
  /\ passes = 0
  /\ inpass = NoPass
  /\ present \in InitialClusters
  /\ labelled = present
  /\ ready = present
  /\ unsched = {}
  /\ opCordoned = {}
  /\ pods \in InitialPods(present)
  /\ now = 0
  /\ envLeft = MaxEnvChanges
  /\ run = NoRun

Next ==
  \/ Tick
  \/ ReconcileFinding
  \/ ReconcileProcessing
  \/ ListReplacements
  \/ Cordon
  \/ DrainPass
  \/ EvictPod
  \/ DrainFinal
  \/ Uncordon
  \/ Complete
  \/ NodeDeleted
  \/ NodeRelabelled
  \/ NodeReadyChanged
  \/ Advance

\* Clusters of up to two nodes that may change, a clock that moves, an
\* operator that is not restarted, and pods that may give trouble for
\* MaxPasses passes.
Spec == Init /\ [][Next]_vars

\* Three nodes, a cluster that does not change, one day, an operator that
\* may be restarted at any point of a reconcile, and pods that may give
\* trouble for MaxDrainPasses passes.
InitDrain ==
  /\ status = [phase |-> "", currentNode |-> "", lastRefreshTimestamp |-> NoTime,
               conditions |-> <<>>]
  /\ spec \in [nodeCooldownSeconds : CooldownChoices, refreshScheduleDays : RefreshChoices]
  /\ patch = EmptyPatch
  /\ pc = "idle"
  /\ attempt = 0
  /\ passes = 0
  /\ inpass = NoPass
  /\ present = Nodes
  /\ labelled = Nodes
  /\ ready = Nodes
  /\ unsched = {}
  /\ opCordoned = {}
  /\ pods \in InitialPods(present)
  /\ now = 0
  /\ envLeft = 0
  /\ run = NoRun

NextDrain ==
  \/ Tick
  \/ ReconcileFinding
  \/ ReconcileProcessing
  \/ ListReplacements
  \/ Cordon
  \/ DrainPassLong
  \/ EvictPodLong
  \/ DrainFinal
  \/ Uncordon
  \/ Complete
  \/ Restart

SpecDrain == InitDrain /\ [][NextDrain]_vars

\* ------------------------------------------- scheduling and progress
\* Two matching, Ready nodes that stay; pods may give trouble in every pass
\* of the eviction loop.  kopf runs the timer on its interval and the reconciler on
\* every phase change and after every TemporaryError delay, so each handler
\* step that stays enabled is taken; the API server does not fail the
\* operator's read, list and cordon calls forever, so a reconcile that can
\* pass each of them infinitely often does pass it.
LiveNodes == {"n1", "n2"}

InitLive ==
  /\ status = [phase |-> "", currentNode |-> "", lastRefreshTimestamp |-> NoTime,
               conditions |-> <<>>]
  /\ spec \in [nodeCooldownSeconds : CooldownChoices, refreshScheduleDays : RefreshChoices]
  /\ patch = EmptyPatch
  /\ pc = "idle"
  /\ attempt = 0
  /\ passes = 0
  /\ inpass = NoPass
  /\ present = LiveNodes
  /\ labelled = LiveNodes
  /\ ready = LiveNodes
  /\ unsched = {}
  /\ opCordoned = {}
  /\ pods \in InitialPods(present)
  /\ now = 0
  /\ envLeft = 0
  /\ run = NoRun

NextLive ==
  \/ Tick
  \/ ReconcileFinding
  \/ ReconcileProcessing
  \/ ListReplacements
  \/ Cordon
  \/ DrainPass
  \/ EvictPodLive
  \/ DrainFinal
  \/ Uncordon
  \/ Complete
  \/ Advance

ReadsNode == ReconcileProcessing /\ pc' = "list"

FindsReplacement == ListReplacements /\ pc' = "cordon"

ReachesDrain == Cordon /\ pc' = "drain"

Fairness ==
  /\ WF_vars(Tick)
  /\ WF_vars(ReconcileFinding)
  /\ SF_vars(ReadsNode)
  /\ SF_vars(FindsReplacement)
  /\ SF_vars(ReachesDrain)
  /\ WF_vars(DrainPass)
  /\ WF_vars(EvictPodLive)
  /\ WF_vars(DrainFinal)
  /\ WF_vars(Uncordon)
  /\ WF_vars(Complete)

SpecLive == InitLive /\ [][NextLive]_vars /\ Fairness

\* ---------------------------------------- the status writer on its own
\* Two update_status calls are applied to one patch, in either order.  A call
\* is the tuple of its keyword arguments; both calls of a pair are made within
\* one clock reading.
WriterCalls ==
  [ phase         : {"", "Idle", "Failed"},
    current_node  : {None, "", "n1"},
    message       : {"", "Temporary issue"},
    timestamp     : {NoTime, 0, 1},
    add_condition : {NoCond, WarningCondition(0)} ]

\* the fields of patch['status'] a call assigns
FieldsSet(c) ==
  (IF c.phase # "" THEN {"phase"} ELSE {})
    \cup (IF c.current_node # None THEN {"currentNode"} ELSE {})
    \cup (IF c.timestamp # NoTime THEN {"lastRefreshTimestamp"} ELSE {})
    \cup (IF c.message # "" \/ c.add_condition # NoCond THEN {"conditions"} ELSE {})

WriterStatuses ==
  { [phase |-> ph, currentNode |-> "", lastRefreshTimestamp |-> NoTime, conditions |-> <<>>] :
      ph \in {"", "ProcessingNode"} }

WriterPatches ==
  { EmptyPatch,
    [EmptyPatch EXCEPT !.conditions = <<WarningCondition(0)>>],
    [EmptyPatch EXCEPT !.phase = "ProcessingNode", !.currentNode = "n2"] }

Write(c, p) ==
  update_status(p, status, c.phase, c.current_node, c.message, c.timestamp,
                c.add_condition, now)

InitWriter ==
  /\ status \in WriterStatuses
  /\ patch \in WriterPatches
  /\ \E a \in WriterCalls, b \in WriterCalls :
       /\ FieldsSet(a) # {}
       /\ FieldsSet(b) # {}
       /\ FieldsSet(a) \cap FieldsSet(b) = {}
       /\ run = [kind |-> "writer", first |-> a, second |-> b, base |-> patch,
                 applied |-> <<>>]
  /\ spec = [nodeCooldownSeconds |-> 0, refreshScheduleDays |-> 1]
  /\ pc = "writer"
  /\ attempt = 0
  /\ passes = 0
  /\ inpass = NoPass
  /\ present = {}
  /\ labelled = {}
  /\ ready = {}
  /\ unsched = {}
  /\ opCordoned = {}
  /\ pods = [n \in Nodes |-> {}]
  /\ now = 0
  /\ envLeft = 0

\* one of the two calls, not yet made, is made on the patch
WriterCall(i) ==
  /\ pc = "writer"
  /\ \A k \in 1..Len(run.applied) : run.applied[k] # i
  /\ patch' = Write(IF i = 1 THEN run.first ELSE run.second, patch)
  /\ run' = [run EXCEPT !.applied = Append(@, i)]
  /\ UNCHANGED <<status, spec, pc, attempt, passes, inpass, cluster, pods, now, envLeft>>

NextWriter ==
  \/ WriterCall(1)
  \/ WriterCall(2)

SpecWriter == InitWriter /\ [][NextWriter]_vars

\* ------------------------------------------------ the timer on its own
\* The timer runs on a persisted status whose lastRefreshTimestamp may have
\* been written by the operator or by another writer of the status; no
\* reconcile runs and the clock moves.
TimerStamps == {NoTime, Malformed, NaiveStamp(0), 0}

\* the condition the closing write of a cycle at time 0 leaves behind
CooldownCondition ==
  new_condition([phase |-> "ProcessingNode"], "WaitingCooldown", "Node refreshed. Cooldown.", 0)

TimerStatuses ==
  { st \in [ phase : Phases \cup {""}, currentNode : {"", "n1"},
             lastRefreshTimestamp : TimerStamps,
             conditions : {<<>>, <<CooldownCondition>>} ] :
      /\ (st.currentNode = "n1") => st.phase \in {"ProcessingNode", "Failed"}
      /\ (st.phase = "ProcessingNode") => st.currentNode = "n1"
      /\ (st.phase = "WaitingCooldown") <=> (st.conditions # <<>>)
      \* the closing write that enters WaitingCooldown stamps the time itself
      /\ (st.phase = "WaitingCooldown") => st.lastRefreshTimestamp = 0 }

InitTimer ==
  /\ status \in TimerStatuses
  /\ spec \in [nodeCooldownSeconds : CooldownChoices, refreshScheduleDays : RefreshChoices]
  /\ patch = EmptyPatch
  /\ pc = "idle"
  /\ attempt = 0
  /\ passes = 0
  /\ inpass = NoPass
  /\ present = {"n1", "n2"}
  /\ labelled = present
  /\ ready = present
  /\ unsched = {}
  /\ opCordoned = {}
  /\ pods = [n \in Nodes |-> {}]
  /\ now = 0
  /\ envLeft = 0
  /\ run = NoRun

NextTimer ==
  \/ Tick
  \/ Advance

SpecTimer == InitTimer /\ [][NextTimer]_vars

\* ============================================================ claims
HasWarning(conds) ==
  \E i \in 1..Len(conds) :
    conds[i].type = "Warning" /\ conds[i].reason = "UncordonFailed"

\* a matching, Ready and Schedulable node other than n
OtherSelectable(n) == {m \in ((present \cap labelled) \cap ready) \ unsched : m # n}

\* C1: in every persisted status, currentNode is non-empty if and only if the
\* phase is ProcessingNode.
C1_CurrentNodeIffProcessing ==
  (status.currentNode # "") <=> (status.phase = "ProcessingNode")

\* C2: at most one node matching targetNodeLabels is cordoned by the operator
\* at any time.
C2_AtMostOneCordoned == Cardinality(opCordoned \cap labelled) <= 1

\* C3: a node becomes unschedulable only by a reconcile in ProcessingNode that
\* cordons currentNode after its own node listing held another matching, Ready
\* and Schedulable node; a reconcile whose listing holds no such node ends
\* Transient, leaves the phase ProcessingNode and cordons nothing.
C3_CordonNeedsReplacement ==
  [][ /\ (unsched' # unsched /\ unsched \subseteq unsched')
         => /\ pc = "cordon"
            /\ status.phase = "ProcessingNode"
            /\ unsched' = unsched \cup {status.currentNode}
            /\ run.candidates # {}
            /\ status.currentNode \notin run.candidates
      /\ (pc = "list" /\ pc' = "cordon")
         => /\ run'.candidates # {}
            /\ run'.candidates \subseteq OtherSelectable(status.currentNode)
      /\ ( /\ pc = "list"
           /\ pc' = "idle"
           /\ run'.cause \in {"NoReplacement", "ListFailed"} )
         => /\ run'.outcome = "Transient"
            /\ status'.phase = "ProcessingNode"
            /\ status'.currentNode = status.currentNode
            /\ unsched' = unsched
            /\ opCordoned' = opCordoned
      /\ ( /\ pc = "list"
           /\ pc' # "list"
           /\ run'.outcome # "Killed"
           /\ OtherSelectable(status.currentNode) = {} )
         => /\ pc' = "idle"
            /\ run'.outcome = "Transient"
            /\ unsched' = unsched
    ]_vars

C3_Witness ==
  /\ pc = "drain"
  /\ run.cordon = status.currentNode
  /\ run.cordon \in unsched
  /\ run.candidates # {}

\* C4: the phase leaves WaitingCooldown only when nodeCooldownSeconds have
\* elapsed since the lastTransitionTime of the most recent WaitingCooldown
\* condition; before that nothing changes the status.
C4_CooldownRespected ==
  [][ status.phase = "WaitingCooldown"
      => /\ CooldownStart(status.conditions) # NoTime
         /\ CooldownStart(status.conditions) <= now
         /\ status'.phase # "WaitingCooldown"
            => now >= CooldownStart(status.conditions) + spec.nodeCooldownSeconds
         /\ now < CooldownStart(status.conditions) + spec.nodeCooldownSeconds
            => status' = status
    ]_vars

C4_Witness ==
  /\ run.kind = "tick"
  /\ run.start = "WaitingCooldown"
  /\ status.phase # "WaitingCooldown"
  /\ spec.nodeCooldownSeconds > 0

\* C5: the conditions list never holds more than 10 entries, in the patch
\* after any Status Writer call and in the persisted status.
C5_ConditionsAtMostTen ==
  /\ Len(patch.conditions) <= 10
  /\ Len(status.conditions) <= 10

\* C6: lastRefreshTimestamp changes only when a reconcile moves the phase from
\* ProcessingNode into WaitingCooldown or Succeeded, and then to the current
\* time; it never decreases.
C6_TimestampOnlyOnRefresh ==
  [][ /\ status'.lastRefreshTimestamp >= status.lastRefreshTimestamp
      /\ status'.lastRefreshTimestamp # status.lastRefreshTimestamp
         => /\ run'.kind = "reconcile"
            /\ pc = "finish"
            /\ status.phase = "ProcessingNode"
            /\ status'.phase \in {"WaitingCooldown", "Succeeded"}
            /\ status'.lastRefreshTimestamp = now
      /\ (status'.phase # status.phase /\ status'.phase \in {"WaitingCooldown", "Succeeded"})
         => status'.lastRefreshTimestamp = now
    ]_vars

C6_Witness ==
  /\ run.kind = "reconcile"
  /\ run.cause = "Refreshed"
  /\ status.phase \in {"WaitingCooldown", "Succeeded"}
  /\ status.lastRefreshTimestamp = now
  /\ now > 0

\* C7: no eviction is ever issued for a DaemonSet-owned pod or for the
\* operator's own pod, and a drain of a node that holds only such pods goes
\* through to success with the pods still there.
ExemptPod(p) ==
  \/ PodInfo[p].daemon
  \/ PodInfo[p].namespace = OPERATOR_NAMESPACE /\ PodInfo[p].app = "node-refresh-operator"

C7_ExemptPodsNeverEvicted ==
  [][ /\ \A p \in run'.evictions : ~ExemptPod(p)
      /\ ( /\ pc \in {"drain", "final"}
           /\ pc' # pc
           /\ run'.outcome # "Killed"
           /\ \A p \in get_pods_on_node(status.currentNode, TRUE) : ExemptPod(p) )
         => /\ pc' = (IF pc = "drain" THEN "final" ELSE "uncordon")
            /\ pods' = pods
            /\ run'.evictions = run.evictions
            /\ status' = status
    ]_vars

C7_Witness ==
  /\ pc = "uncordon"
  /\ get_pods_on_node(status.currentNode, TRUE) = {"ds", "op"}
  /\ run.evictions = {}

\* C8: a reconcile that ends on a Transient failure (listing failure or
\* throttling, cordon failure, no selectable node, no replacement node)
\* records a message and leaves the phase it started in.  A listing failure
\* is counted when the listing fails although matching nodes exist.
TransientCauses == {"ListFailed", "ApiError", "CordonFailed", "NoSelectable", "NoReplacement"}

C8_TransientKeepsPhase ==
  [][ ( /\ pc = "idle"
        /\ pc' = "idle"
        /\ run' # run
        /\ run'.kind = "reconcile"
        /\ run'.cause \in TransientCauses
        /\ run'.cause = "ListFailed" => (present \cap labelled) # {} )
      => /\ status'.phase = status.phase
         /\ status'.conditions # <<>>
    ]_vars

\* C9: when the drain succeeded and the uncordon failed, the reconcile ends in
\* WaitingCooldown or Succeeded with lastRefreshTimestamp set and a Warning
\* condition of reason UncordonFailed among the persisted conditions.
C9_UncordonFailureKeepsCycle ==
  [][ ( /\ pc = "finish"
        /\ run.uncordon = "failed"
        /\ pc' = "idle"
        /\ run'.outcome # "Killed" )
      => /\ status'.phase \in {"WaitingCooldown", "Succeeded"}
         /\ status'.lastRefreshTimestamp = now
         /\ HasWarning(status'.conditions)
         /\ run'.outcome = "Done"
    ]_vars

C9_Witness ==
  /\ run.uncordon = "failed"
  /\ run.outcome = "Done"
  /\ status.phase = "WaitingCooldown"
  /\ Len(status.conditions) = 10
  /\ HasWarning(status.conditions)

\* C10: a reconcile in ProcessingNode whose currentNode is gone (NotFound) or
\* no longer carries the labels moves to FindingNodes with currentNode cleared,
\* without error, cordon or eviction (a read_node call that fails says nothing
\* about the node and is left aside).
C10_VanishedNodeRestartsSearch ==
  [][ ( /\ pc = "idle"
        /\ status.phase = "ProcessingNode"
        /\ run' # run
        /\ run'.kind = "reconcile"
        /\ status.currentNode \notin (present \cap labelled) )
      => /\ pc' = "idle"
         /\ unsched' = unsched
         /\ opCordoned' = opCordoned
         /\ run'.cordon = ""
         /\ run'.evictions = {}
         /\ run'.cause \in {"NotFound", "LabelsChanged", "ApiError", "ReadNode"}
         /\ run'.cause \in {"NotFound", "LabelsChanged"}
            => /\ run'.outcome = "Done"
               /\ status'.phase = "FindingNodes"
               /\ status'.currentNode = ""
    ]_vars

C10_Witness ==
  /\ run.kind = "reconcile"
  /\ run.start = "ProcessingNode"
  /\ run.cause = "LabelsChanged"
  /\ run.outcome = "Done"
  /\ status.phase = "FindingNodes"
  /\ status.currentNode = ""

\* a step of the timer handler, and a step that runs a reconcile from idle
TickStep ==
  /\ pc = "idle"
  /\ pc' = "idle"
  /\ run'.kind = "tick"
  /\ run'.clock[1] = now
  /\ run'.clock[4] = now'
  /\ envLeft' = envLeft

ReconcileStep ==
  /\ pc = "idle"
  /\ run'.kind = "reconcile"
  /\ envLeft' = envLeft

\* C11: a tick that observes FindingNodes or ProcessingNode leaves the status
\* unchanged; no tick cordons a node or evicts a pod; nodes and pods are
\* touched only by the reconciler, and only in those two phases.
C11_TimerYieldsToReconciler ==
  [][ /\ (TickStep /\ status.phase \in {"FindingNodes", "ProcessingNode"})
         => status' = status
      /\ TickStep
         => /\ unsched' = unsched
            /\ opCordoned' = opCordoned
            /\ pods' = pods
            /\ run'.cordon = ""
            /\ run'.evictions = {}
      /\ ( /\ envLeft' = envLeft
           /\ \/ unsched' # unsched
              \/ opCordoned' # opCordoned
              \/ run'.evictions \ run.evictions # {} )
         => /\ run'.kind = "reconcile"
            /\ status.phase \in {"FindingNodes", "ProcessingNode"}
    ]_vars

C11_Witness ==
  /\ run.kind = "tick"
  /\ run.start = "ProcessingNode"
  /\ run.outcome = "Done"
  /\ status.phase = "ProcessingNode"
  /\ status.currentNode \in Nodes
  /\ status.lastRefreshTimestamp = NoTime

\* C12: a tick that observes WaitingCooldown once nodeCooldownSeconds have
\* elapsed since the cooldown began leaves WaitingCooldown in that tick, to
\* FindingNodes when a refresh is due (at the tick's reading of the clock for
\* the schedule) and to Idle otherwise; with a cooldown of 0 every tick in
\* WaitingCooldown does.
C12_CooldownEndsOnTick ==
  [][ ( /\ TickStep
        /\ status.phase = "WaitingCooldown"
        /\ <<status, run>>' # <<status, run>>
        /\ now >= CooldownStart(status.conditions) + spec.nodeCooldownSeconds )
      => /\ status'.phase =
              (IF \/ status.lastRefreshTimestamp = NoTime
                  \/ run'.clock[3] >= status.lastRefreshTimestamp + spec.refreshScheduleDays
               THEN "FindingNodes" ELSE "Idle")
         /\ spec.nodeCooldownSeconds = 0 => status'.phase # "WaitingCooldown"
    ]_vars

C12_Witness ==
  /\ run.kind = "tick"
  /\ run.start = "WaitingCooldown"
  /\ status.phase = "Idle"
  /\ spec.nodeCooldownSeconds = 0
  /\ status.lastRefreshTimestamp = now

\* C13: a reconcile in FindingNodes with no node matching the labels sets the
\* phase to Idle in that reconcile, with currentNode empty and no node cordoned.
C13_NoMatchingNodeGoesIdle ==
  [][ ( /\ ReconcileStep
        /\ status.phase = "FindingNodes"
        /\ <<status, run>>' # <<status, run>>
        /\ present \cap labelled = {} )
      => /\ status'.phase = "Idle"
         /\ status'.currentNode = ""
         /\ pc' = "idle"
         /\ run'.outcome = "Done"
         /\ run'.cordon = ""
         /\ unsched' = unsched
         /\ opCordoned' = opCordoned
    ]_vars

C13_Witness ==
  /\ run.kind = "reconcile"
  /\ run.start = "FindingNodes"
  /\ run.cause = "NoNodes"
  /\ status.phase = "Idle"
  /\ status.currentNode = ""
  /\ present # {}
  /\ present \cap labelled = {}

\* C14: two update_status calls on one patch that assign disjoint fields give
\* the same patch, and so the same resulting status, in either order.
C14_DisjointWritesCommute ==
  (run.kind = "writer" /\ Len(run.applied) = 2)
  => /\ patch = Write(run.second, Write(run.first, run.base))
     /\ patch = Write(run.first, Write(run.second, run.base))
     /\ ApplyPatch(status, patch)
          = ApplyPatch(status, Write(run.second, Write(run.first, run.base)))

C14_Witness ==
  /\ run.kind = "writer"
  /\ run.applied = <<2, 1>>
  /\ FieldsSet(run.first) = {"phase"}
  /\ FieldsSet(run.second) = {"conditions"}
  /\ run.second.message # ""
  /\ patch.phase = run.first.phase
  /\ Len(patch.conditions) = Len(run.base.conditions) + 1

\* C15: a drain reports success only when no pod that passes the eviction
\* filter is left on the node, and the phase moves from ProcessingNode to
\* WaitingCooldown or Succeeded only then; a pod listing that fails is not
\* taken for an empty node.
C15_DrainSuccessMeansEmpty ==
  [][ /\ (pc = "final" /\ pc' = "uncordon")
         => {p \in get_pods_on_node(status.currentNode, TRUE) : ~ExemptPod(p)} = {}
      /\ ( /\ status.phase = "ProcessingNode"
           /\ status'.phase \in {"WaitingCooldown", "Succeeded"} )
         => {p \in get_pods_on_node(status.currentNode, TRUE) : ~ExemptPod(p)} = {}
    ]_vars

\* C16: the eviction loop of a drain makes at most MaxDrainAttempts = 10
\* passes, whatever the pods do, also when every eviction of every pass is
\* accepted and the pods are still listed at the next pass.
C16_AtMostTenPasses == passes <= max_drain_attempts

\* C17: an eviction that fails with an error other than a disruption-budget
\* rejection or pod-not-found ends the drain at once: no handler is still
\* running after one of its evictions failed that way.
C17_FatalEvictionEndsDrain == pc # "idle" => ~run.fatal

\* the refresh is due at time t: the timestamp is absent, is no ISO
\* timestamp, or names a time at least refresh_days before t
StampDue(s, refresh_days, t) ==
  \/ s = NoTime
  \/ s = Malformed
  \/ s \notin {NoTime, Malformed} /\ t >= isoparse(s).t + refresh_days

\* C18: a tick that observes Idle, Succeeded or Failed (or no phase yet) sets
\* the phase to FindingNodes and clears currentNode exactly when
\* lastRefreshTimestamp is absent or malformed, or now >= lastRefreshTimestamp
\* + refreshScheduleDays, now being the tick's reading of the clock for the
\* schedule test; otherwise it leaves the status unchanged.  A timestamp
\* without a UTC offset counts as the time it names.
C18_RefreshDueExactly ==
  [][ ( /\ TickStep
        /\ status.phase \in {"", "Idle", "Succeeded", "Failed"}
        /\ <<status, run>>' # <<status, run>> )
      => IF StampDue(status.lastRefreshTimestamp, spec.refreshScheduleDays, run'.clock[3])
         THEN /\ status'.phase = "FindingNodes"
              /\ status'.currentNode = ""
              /\ status'.lastRefreshTimestamp = status.lastRefreshTimestamp
         ELSE status' = status
    ]_vars

\* a tick found the schedule met after a completed cycle
C18_Witness ==
  /\ run.kind = "tick"
  /\ run.start = "Succeeded"
  /\ status.phase = "FindingNodes"
  /\ status.currentNode = ""
  /\ status.lastRefreshTimestamp # NoTime
  /\ now = status.lastRefreshTimestamp + spec.refreshScheduleDays

\* a tick found the schedule not yet met and left the status alone
C18_WitnessNotDue ==
  /\ run.kind = "tick"
  /\ run.start = "Succeeded"
  /\ status.phase = "Succeeded"
  /\ status.lastRefreshTimestamp # NoTime
  /\ now < status.lastRefreshTimestamp + spec.refreshScheduleDays

\* C19: the reconcile that ends a successful drain and uncordon of currentNode
\* writes WaitingCooldown when another matching, Ready and Schedulable node
\* exists and Succeeded otherwise, and in the same write clears currentNode
\* and sets lastRefreshTimestamp.
C19_ClosingWriteFollowsCluster ==
  [][ ( /\ pc = "finish"
        /\ pc' = "idle"
        /\ run.uncordon = "ok"
        /\ run'.outcome = "Done" )
      => /\ status'.phase = (IF OtherSelectable(status.currentNode) # {}
                             THEN "WaitingCooldown" ELSE "Succeeded")
         /\ status'.currentNode = ""
         /\ status'.lastRefreshTimestamp = now
    ]_vars

\* C20: a node is cordoned only while the persisted status has phase
\* ProcessingNode and names that node as currentNode; the status stays so for
\* as long as the handler runs and through a restart of the operator, the node
\* named under ProcessingNode is never exchanged for another, and so the
\* reconcile after a restart cordons and drains the same node.
C20_CordonOnPersistedSelection ==
  [][ /\ ( /\ envLeft' = envLeft
           /\ \/ pc = "cordon" /\ pc' = "drain"
              \/ unsched' \ unsched # {} )
         => /\ status.phase = "ProcessingNode"
            /\ status.currentNode \in Nodes
            /\ run'.cordon = status.currentNode
            /\ unsched' = unsched \cup {status.currentNode}
            /\ status' = status
      /\ pc' # "idle"
         => /\ status'.phase = "ProcessingNode"
            /\ status'.currentNode \in Nodes
            /\ run'.cordon \in {"", status'.currentNode}
            /\ pc' \in {"drain", "evict", "final", "uncordon", "finish"}
               => run'.cordon = status'.currentNode
      /\ (run'.outcome = "Killed" /\ pc # "idle")
         => /\ status' = status
            /\ status'.phase = "ProcessingNode"
            /\ run'.cordon \in {"", status'.currentNode}
            /\ unsched' = unsched
      /\ status'.phase = "ProcessingNode" => status'.currentNode \in Nodes
      /\ (status.phase = "ProcessingNode" /\ status'.phase = "ProcessingNode")
         => status'.currentNode = status.currentNode
    ]_vars

\* the operator was restarted in the middle of a drain
C20_Witness ==
  /\ pc = "idle"
  /\ run.kind = "reconcile"
  /\ run.outcome = "Killed"
  /\ run.evictions # {}
  /\ status.phase = "ProcessingNode"
  /\ status.currentNode = run.cordon
  /\ run.cordon \in unsched \cap opCordoned

\* C22: the persisted conditions are a history: when a handler run adds
\* conditions and the old and new entries together are at most 10, every
\* condition persisted before the run is still there afterwards, in its
\* original order, ahead of the new ones.
C22_ConditionsHistoryKept ==
  [][ ( /\ status'.conditions # status.conditions
        /\ Len(status.conditions) + Len(status'.conditions) <= KeepConditions + 1 )
      => /\ Len(status'.conditions) > Len(status.conditions)
         /\ SubSeq(status'.conditions, 1, Len(status.conditions)) = status.conditions
    ]_vars

\* C23: the persisted phase changes only along these edges.  By a tick:
\* Idle, Succeeded or Failed (or no phase yet) to FindingNodes, and
\* WaitingCooldown to Idle or FindingNodes.  By a reconcile: FindingNodes to
\* Idle, ProcessingNode or Failed, and ProcessingNode to FindingNodes,
\* WaitingCooldown, Succeeded or Failed.  WaitingCooldown and Succeeded are
\* entered only at the end of a reconcile whose drain reported success, and
\* ProcessingNode only with a currentNode that is matching, Ready and
\* Schedulable at the selection.
C23_PhaseEdges ==
  [][ status'.phase # status.phase
      => \/ /\ run'.kind = "tick"
            /\ status.phase \in {"", "Idle", "Succeeded", "Failed"}
            /\ status'.phase = "FindingNodes"
         \/ /\ run'.kind = "tick"
            /\ status.phase = "WaitingCooldown"
            /\ status'.phase \in {"Idle", "FindingNodes"}
         \/ /\ run'.kind = "reconcile"
            /\ status.phase = "FindingNodes"
            /\ status'.phase \in {"Idle", "ProcessingNode", "Failed"}
            /\ status'.phase = "ProcessingNode"
               => status'.currentNode \in ((present \cap labelled) \cap ready) \ unsched
         \/ /\ run'.kind = "reconcile"
            /\ status.phase = "ProcessingNode"
            /\ status'.phase \in {"FindingNodes", "WaitingCooldown", "Succeeded", "Failed"}
            /\ status'.phase \in {"WaitingCooldown", "Succeeded"}
               => /\ pc = "finish"
                  /\ run.cordon = status.currentNode
                  /\ run.uncordon # ""
    ]_vars

\* a reconcile found the node under refresh gone or relabelled and went back
\* to the search
C23_Witness ==
  /\ run.kind = "reconcile"
  /\ run.start = "ProcessingNode"
  /\ run.outcome = "Done"
  /\ status.phase = "FindingNodes"
  /\ status.currentNode = ""

\* the matching, Ready nodes that are schedulable or are the node under refresh
AvailableNodes ==
  {n \in (present \cap labelled) \cap ready : n \notin unsched \/ n = status.currentNode}

\* C21: under fair scheduling every refresh cycle ends: once the phase is
\* FindingNodes it later is Idle, WaitingCooldown, Succeeded or Failed, unless
\* fewer than two matching, Ready and Schedulable nodes are left.
C21_CycleTerminates ==
  (status.phase = "FindingNodes")
    ~> \/ status.phase \in {"Idle", "WaitingCooldown", "Succeeded", "Failed"}
       \/ Cardinality(AvailableNodes) < 2

====
